---------------------------- MODULE Spec2Model ----------------------------
(***************************************************************************)
(* Model of src/app.py, the Monday.com business-intelligence dashboard:    *)
(* one render cycle of the Streamlit script (fetch both boards, build the  *)
(* dashboard, answer one chat query) together with the pure helpers it     *)
(* calls (find_column, clean_numeric_columns, calculate_pipeline,          *)
(* revenue_by_sector, work_order_metrics, interpret_query,                 *)
(* rule_based_intent).                                                     *)
(*                                                                         *)
(* Python strings are TLA+ strings; `in`, lower() and pd.to_numeric are    *)
(* computed character by character.  A null cell (None or NaN) is the      *)
(* record Null, a number is an integer.                                    *)
(***************************************************************************)
EXTENDS Integers, Sequences, FiniteSets, TLC

VARIABLES
    pc,           \* position of the script / of the function under study
    HF_API_KEY,   \* app.py:16, the external-classifier credential ("" = unset)
    deals_df,     \* app.py:259
    work_df,      \* app.py:260
    screen,       \* what Streamlit has been asked to display, in order
    computed,     \* the metric functions invoked so far in this cycle
    query,        \* app.py:272
    intent,       \* app.py:275
    hf_requests,  \* number of requests.post calls made to the classifier
    hf_reply,     \* the classifier's outcome for the request in flight
    columns,      \* find_column study: df.columns
    keywords,     \* find_column study: keywords
    found         \* find_column study: the value returned

vars == <<pc, HF_API_KEY, deals_df, work_df, screen, computed, query, intent,
          hf_requests, hf_reply, columns, keywords, found>>

-----------------------------------------------------------------------------
(* Bounds of the model. *)

MaxCols == 3

MaxRows == 2

-----------------------------------------------------------------------------
(* Python values. *)

None == "<None>"

Unset == [unset |-> TRUE]

Null == [null |-> TRUE]

Num(n) == [num |-> n]

Str(s) == [str |-> s]

IsNum(v) == "num" \in DOMAIN v

IsStr(v) == "str" \in DOMAIN v

Range(s) == {s[i] : i \in 1..Len(s)}

\* The sequences of at most n distinct elements of S.
RECURSIVE DistinctSeqs(_, _)
DistinctSeqs(S, n) ==
    IF n = 0 THEN {<<>>}
    ELSE LET shorter == DistinctSeqs(S, n - 1)
         IN  shorter \cup
             UNION {{Append(s, x) : x \in S \ Range(s)} :
                        s \in {t \in shorter : Len(t) = n - 1}}

-----------------------------------------------------------------------------
(* str.lower() and the substring test `sub in s`. *)

LowerChar(c) ==
    CASE c = "A" -> "a" [] c = "B" -> "b" [] c = "C" -> "c" [] c = "D" -> "d"
      [] c = "E" -> "e" [] c = "F" -> "f" [] c = "G" -> "g" [] c = "H" -> "h"
      [] c = "I" -> "i" [] c = "J" -> "j" [] c = "K" -> "k" [] c = "L" -> "l"
      [] c = "M" -> "m" [] c = "N" -> "n" [] c = "O" -> "o" [] c = "P" -> "p"
      [] c = "Q" -> "q" [] c = "R" -> "r" [] c = "S" -> "s" [] c = "T" -> "t"
      [] c = "U" -> "u" [] c = "V" -> "v" [] c = "W" -> "w" [] c = "X" -> "x"
      [] c = "Y" -> "y" [] c = "Z" -> "z" [] OTHER -> c

RECURSIVE lower(_)
lower(s) ==
    IF Len(s) = 0 THEN ""
    ELSE IF Len(s) = 1 THEN LowerChar(s)
    ELSE LET half == Len(s) \div 2
         IN  lower(SubSeq(s, 1, half)) \o lower(SubSeq(s, half + 1, Len(s)))

In(sub, s) ==
    \E i \in 1..(Len(s) - Len(sub) + 1) : SubSeq(s, i, i + Len(sub) - 1) = sub

-----------------------------------------------------------------------------
(* find_column, app.py:71-76: keywords in the outer loop, columns inside.  *)

RECURSIVE ScanColumns(_, _, _)
ScanColumns(cols, keyword, i) ==
    IF i > Len(cols) THEN None
    ELSE IF In(lower(keyword), lower(cols[i])) THEN cols[i]
    ELSE ScanColumns(cols, keyword, i + 1)

RECURSIVE ScanKeywords(_, _, _)
ScanKeywords(cols, kws, k) ==
    IF k > Len(kws) THEN None
    ELSE LET col == ScanColumns(cols, kws[k], 1)
         IN  IF col # None THEN col ELSE ScanKeywords(cols, kws, k + 1)

\* Variant with the loops exchanged: columns outside, keywords inside.
RECURSIVE ScanColumnsFirst(_, _, _)
ScanColumnsFirst(cols, kws, i) ==
    IF i > Len(cols) THEN None
    ELSE IF \E k \in 1..Len(kws) : In(lower(kws[k]), lower(cols[i]))
         THEN cols[i]
         ELSE ScanColumnsFirst(cols, kws, i + 1)

find_column_ColumnMajor(cols, kws) == ScanColumnsFirst(cols, kws, 1)

find_column(cols, kws) == ScanKeywords(cols, kws, 1)

-----------------------------------------------------------------------------
(* pd.to_numeric(..., errors="coerce") on one cell: a text made of decimal *)
(* digits becomes its number, any other text and a null become NaN.        *)

DigitValue(c) ==
    CASE c = "0" -> 0 [] c = "1" -> 1 [] c = "2" -> 2 [] c = "3" -> 3
      [] c = "4" -> 4 [] c = "5" -> 5 [] c = "6" -> 6 [] c = "7" -> 7
      [] c = "8" -> 8 [] c = "9" -> 9 [] OTHER -> -1

RECURSIVE ParseDigits(_, _)
ParseDigits(s, acc) ==
    IF Len(s) = 0 THEN Num(acc)
    ELSE LET d == DigitValue(SubSeq(s, 1, 1))
         IN  IF d < 0 THEN Null
             ELSE ParseDigits(SubSeq(s, 2, Len(s)), 10 * acc + d)

to_numeric(cell) ==
    IF IsNum(cell) THEN cell
    ELSE IF IsStr(cell) /\ Len(cell.str) > 0 THEN ParseDigits(cell.str, 0)
    ELSE Null

\* Series.sum(): NaN entries are skipped, the empty sum is 0.
RECURSIVE NanSum(_)
NanSum(cells) ==
    IF Len(cells) = 0 THEN 0
    ELSE (IF IsNum(Head(cells)) THEN Head(cells).num ELSE 0) + NanSum(Tail(cells))

\* Series * Series, element-wise: NaN when either factor is NaN.
Times(a, b) == IF IsNum(a) /\ IsNum(b) THEN Num(a.num * b.num) ELSE Null

-----------------------------------------------------------------------------
(* fetch_board, app.py:29-65.  The reply of the monday.com API is either   *)
(* an exception raised by requests.post or a status with a JSON body; the  *)
(* function returns a DataFrame or raises.                                 *)

BoardException == [exception |-> "Failed to fetch board"]

\* row = {"Item Name": item["name"]}; row[title] = text  (app.py:60-62)
RECURSIVE RowKeys(_, _)
RowKeys(column_values, keys) ==
    IF Len(column_values) = 0 THEN keys
    ELSE LET title == Head(column_values).column.title
         IN  RowKeys(Tail(column_values),
                     IF title \in Range(keys) THEN keys ELSE Append(keys, title))

RECURSIVE RowValues(_, _)
RowValues(column_values, row) ==
    IF Len(column_values) = 0 THEN row
    ELSE LET col == Head(column_values)
         IN  RowValues(Tail(column_values),
                       (col.column.title :> col.text) @@ row)

RowOf(item) ==
    [keys |-> RowKeys(item.column_values, <<"Item Name">>),
     val  |-> RowValues(item.column_values, "Item Name" :> Str(item.name))]

\* pd.DataFrame(rows): the columns are the keys in order of first
\* appearance, a key a row lacks is NaN in that row.
RECURSIVE FrameColumns(_, _)
FrameColumns(rows, cols) ==
    IF Len(rows) = 0 THEN cols
    ELSE FrameColumns(Tail(rows),
                      cols \o SelectSeq(Head(rows).keys,
                                        LAMBDA k : k \notin Range(cols)))

DataFrame(rows) ==
    LET cols == FrameColumns(rows, <<>>)
    IN  [columns |-> cols,
         rows |-> [i \in 1..Len(rows) |->
                    [c \in Range(cols) |->
                        IF c \in DOMAIN rows[i].val THEN rows[i].val[c] ELSE Null]]]

fetch_board(reply) ==
    IF "exc" \in DOMAIN reply THEN BoardException                     \* line 50 raises
    ELSE IF reply.status_code # 200 THEN BoardException               \* lines 52-53
    ELSE IF "invalid" \in DOMAIN reply.json THEN BoardException       \* line 55 raises
    ELSE IF "data" \notin DOMAIN reply.json THEN BoardException       \* KeyError, line 56
    ELSE IF Len(reply.json.data.boards) = 0 THEN BoardException       \* IndexError, line 56
    ELSE LET items == reply.json.data.boards[1].items_page.items
         IN  DataFrame([i \in 1..Len(items) |-> RowOf(items[i])])

-----------------------------------------------------------------------------
(* clean_numeric_columns, app.py:79-83. *)

NumericWords == <<"value", "amount", "probability">>

IsNumericColumn(col) ==
    \E w \in 1..Len(NumericWords) : In(NumericWords[w], lower(col))

clean_numeric_columns(df) ==
    [df EXCEPT !.rows =
        [i \in 1..Len(df.rows) |->
            [c \in Range(df.columns) |->
                IF IsNumericColumn(c) THEN to_numeric(df.rows[i][c])
                ELSE df.rows[i][c]]]]

-----------------------------------------------------------------------------
(* calculate_pipeline, app.py:89-110. *)

ClosedWon == Str("Closed Won")

\* Variant whose status comparison ignores letter case.
calculate_pipeline_IgnoreCase(df) ==
    LET status_col == find_column(df.columns, <<"deal status", "status">>)
        value_col  == find_column(df.columns, <<"value", "amount">>)
        prob_col   == find_column(df.columns, <<"probability">>)
    IN  IF status_col = None \/ value_col = None THEN <<0, 0>>
        ELSE LET open_deals == SelectSeq(df.rows,
                                   LAMBDA r : ~(IsStr(r[status_col])
                                                /\ lower(r[status_col].str) = "closed won"))
                 values == [i \in 1..Len(open_deals) |->
                               to_numeric(open_deals[i][value_col])]
                 total_pipeline == NanSum(values)
                 weighted_pipeline ==
                     IF prob_col # None
                     THEN NanSum([i \in 1..Len(open_deals) |->
                                    Times(values[i], to_numeric(open_deals[i][prob_col]))])
                     ELSE total_pipeline
             IN  <<total_pipeline, weighted_pipeline>>

calculate_pipeline(df) ==
    LET status_col == find_column(df.columns, <<"deal status", "status">>)
        value_col  == find_column(df.columns, <<"value", "amount">>)
        prob_col   == find_column(df.columns, <<"probability">>)
    IN  IF status_col = None \/ value_col = None THEN <<0, 0>>
        ELSE LET open_deals == SelectSeq(df.rows, LAMBDA r : r[status_col] # ClosedWon)
                 values == [i \in 1..Len(open_deals) |->
                               to_numeric(open_deals[i][value_col])]
                 total_pipeline == NanSum(values)
                 weighted_pipeline ==
                     IF prob_col # None
                     THEN NanSum([i \in 1..Len(open_deals) |->
                                    Times(values[i], to_numeric(open_deals[i][prob_col]))])
                     ELSE total_pipeline
             IN  <<total_pipeline, weighted_pipeline>>

-----------------------------------------------------------------------------
(* revenue_by_sector, app.py:113-131.  A Series is a sequence of           *)
(* [index, value] entries.  groupby drops the rows whose key is null,      *)
(* sums the rest per key and lists the groups in sorted key order (not in  *)
(* order of appearance); sort_values(ascending=False) then sorts with the  *)
(* default kind "quicksort", which is not stable, so entries with equal    *)
(* sums come out in an order the build decides: the operator gives the     *)
(* set of Series the call can return.                                      *)

GroupSums(rows, key_col, value_col) ==
    LET keys == {rows[i][key_col] : i \in 1..Len(rows)} \ {Null}
    IN  [k \in keys |->
            NanSum([i \in 1..Len(SelectSeq(rows, LAMBDA r : r[key_col] = k)) |->
                      to_numeric(SelectSeq(rows, LAMBDA r : r[key_col] = k)[i][value_col])])]

Orderings(S) == {s \in DistinctSeqs(S, Cardinality(S)) : Len(s) = Cardinality(S)}

\* Variant with ascending=True.
IsSorted_Ascending(series) ==
    \A i \in 1..(Len(series) - 1) : series[i].value <= series[i + 1].value

IsSorted(series) ==
    \A i \in 1..(Len(series) - 1) : series[i].value >= series[i + 1].value

sort_values_Ascending(groups) ==
    {series \in {[i \in 1..Len(order) |-> [index |-> order[i], value |-> groups[order[i]]]] :
                    order \in Orderings(DOMAIN groups)} : IsSorted_Ascending(series)}

sort_values(groups) ==
    {series \in {[i \in 1..Len(order) |-> [index |-> order[i], value |-> groups[order[i]]]] :
                    order \in Orderings(DOMAIN groups)} : IsSorted(series)}

revenue_by_sector(df) ==
    LET status_col == find_column(df.columns, <<"deal status", "status">>)
        value_col  == find_column(df.columns, <<"value", "amount">>)
        sector_col == find_column(df.columns, <<"sector">>)
    IN  IF status_col = None \/ value_col = None THEN {<<>>}
        ELSE LET closed == SelectSeq(df.rows, LAMBDA r : r[status_col] = ClosedWon)
             IN  IF sector_col # None
                 THEN sort_values(GroupSums(closed, sector_col, value_col))
                 ELSE {<<>>}

SeriesSum(series) == NanSum([i \in 1..Len(series) |-> Num(series[i].value)])

-----------------------------------------------------------------------------
(* work_order_metrics, app.py:137-151. *)

CountOf(rows, col, text) ==
    Cardinality({i \in 1..Len(rows) : rows[i][col] = Str(text)})

work_order_metrics(df) ==
    LET status_col == find_column(df.columns, <<"status">>)
        total_orders == Len(df.rows)
    IN  IF status_col = None THEN <<total_orders, 0, 0, 0>>
        ELSE <<total_orders,
               CountOf(df.rows, status_col, "Completed"),
               CountOf(df.rows, status_col, "In Progress"),
               CountOf(df.rows, status_col, "Delayed")>>

-----------------------------------------------------------------------------
(* rule_based_intent, app.py:236-251. *)

rule_based_intent(q_in) ==
    LET q == lower(q_in)
    IN  IF In("pipeline", q) \/ In("forecast", q) THEN "pipeline"
        ELSE IF In("revenue", q) THEN "revenue"
        ELSE IF In("operation", q) \/ In("work order", q) THEN "operations"
        ELSE IF In("leadership", q) \/ In("summary", q) THEN "leadership"
        ELSE IF In("sector", q) THEN "sector"
        ELSE "general"

-----------------------------------------------------------------------------
(* interpret_query, app.py:182-229.  The classifier's reply is either an   *)
(* exception raised by requests.post (a timeout, a connection error) or a  *)
(* status with a body; a JSON value is one of [str], [num], [null],        *)
(* [dict] (a function of its keys), [list] (a sequence), and a body that   *)
(* is no JSON at all is [invalid].                                         *)

IsDict(v) == "dict" \in DOMAIN v

IsList(v) == "list" \in DOMAIN v

Raised == "<raised>"

FallThrough == "<fallthrough>"

\* app.py:192-197
Prompt(q) ==
    "\n    Classify this business query into one word only:\n"
    \o "    pipeline, revenue, operations, leadership, sector, general\n"
    \o "\n    Query: " \o q \o "\n    "

\* Variant testing the topics in the opposite order.
TopicOrder_Reversed == <<"sector", "leadership", "operations", "revenue", "pipeline">>

\* app.py:222
TopicOrder == <<"pipeline", "revenue", "operations", "leadership", "sector">>

\* for intent in [...]: if intent in output: return intent  (app.py:222-224)
RECURSIVE FirstTopic(_, _)
FirstTopic(output, i) ==
    IF i > Len(TopicOrder) THEN FallThrough
    ELSE IF In(TopicOrder[i], output) THEN TopicOrder[i]
    ELSE FirstTopic(output, i + 1)

\* "generated_text" in x  (app.py:220): key test on a dict, substring test
\* on a str, element test on a list; TypeError on anything else.
IsContainer(x) == IsDict(x) \/ IsStr(x) \/ IsList(x)

HasGeneratedText(x) ==
    IF IsDict(x) THEN "generated_text" \in DOMAIN x.dict
    ELSE IF IsStr(x) THEN In("generated_text", x.str)
    ELSE \E i \in 1..Len(x.list) : x.list[i] = Str("generated_text")

\* The body of the try block after the request returned (app.py:215-224):
\* an intent returned, Raised, or FallThrough to line 229.
TryBlock(q, reply) ==
    IF "exc" \in DOMAIN reply THEN Raised
    ELSE IF reply.status_code # 200 THEN rule_based_intent(q)
    ELSE LET result == reply.json
         IN  IF "invalid" \in DOMAIN result THEN Raised
             ELSE IF ~IsList(result) THEN FallThrough
             ELSE IF Len(result.list) = 0 THEN Raised              \* IndexError
             ELSE LET first == result.list[1]
                  IN  IF ~IsContainer(first) THEN Raised          \* TypeError
                      ELSE IF ~HasGeneratedText(first) THEN FallThrough
                      ELSE IF ~IsDict(first) THEN Raised          \* TypeError
                      ELSE IF ~IsStr(first.dict["generated_text"]) THEN Raised
                      ELSE FirstTopic(lower(first.dict["generated_text"].str), 1)

\* Variant without the except clause: an exception leaves the function.
interpret_reply_NoExcept(q, reply) ==
    LET r == TryBlock(q, reply)
    IN  IF r = FallThrough THEN "general" ELSE r

\* try ... except: return rule_based_intent(query); return "general"
interpret_reply(q, reply) ==
    LET r == TryBlock(q, reply)
    IN  IF r = Raised THEN rule_based_intent(q)
        ELSE IF r = FallThrough THEN "general"
        ELSE r

\* Variant that posts whether or not a credential is set.
UsesClassifier_Always(key) == TRUE

\* if not HF_API_KEY: return rule_based_intent(query)  (app.py:184-185)
UsesClassifier(key) == key # ""

-----------------------------------------------------------------------------
(* The render cycle, app.py:257-309. *)

Widget(kind, label, value) == [widget |-> kind, label |-> label, value |-> value]

\* f"Rs{x:,.0f}": the amount as shown, formatted at the display boundary.
Rupees(x) == [rupees |-> x]

Count(n) == [count |-> n]

Series(series) == [series |-> series]

FetchError == Widget("error", "Unable to fetch monday.com data.", Null)

\* Variant without st.stop(): the script goes on after the error.
AfterFetchError_NoStop == "tabs"

\* except Exception: st.error(...); st.stop()  (app.py:261-263)
AfterFetchError == "stopped"

\* deals_df = clean_numeric_columns(fetch_board(DEALS_BOARD_ID))
FetchDeals(replies) ==
    /\ pc = "fetch_deals"
    /\ \E reply \in replies :
          LET df == fetch_board(reply)
          IN  IF df = BoardException
              THEN /\ screen' = Append(screen, FetchError)
                   /\ pc' = AfterFetchError
                   /\ UNCHANGED deals_df
              ELSE /\ deals_df' = clean_numeric_columns(df)
                   /\ pc' = "fetch_work"
                   /\ UNCHANGED screen
    /\ UNCHANGED <<HF_API_KEY, work_df, computed, query, intent, hf_requests,
                   hf_reply, columns, keywords, found>>

\* work_df = clean_numeric_columns(fetch_board(WORK_ORDERS_BOARD_ID))
FetchWork(replies) ==
    /\ pc = "fetch_work"
    /\ \E reply \in replies :
          LET df == fetch_board(reply)
          IN  IF df = BoardException
              THEN /\ screen' = Append(screen, FetchError)
                   /\ pc' = AfterFetchError
                   /\ UNCHANGED work_df
              ELSE /\ work_df' = clean_numeric_columns(df)
                   /\ pc' = "tabs"
                   /\ UNCHANGED screen
    /\ UNCHANGED <<HF_API_KEY, deals_df, computed, query, intent, hf_requests,
                   hf_reply, columns, keywords, found>>

\* tab1, tab2 = st.tabs([...])  (app.py:265)
Tabs ==
    /\ pc = "tabs"
    /\ screen' = Append(screen, Widget("tabs", "Dashboard | Chat Mode", Null))
    /\ pc' = "dashboard"
    /\ UNCHANGED <<HF_API_KEY, deals_df, work_df, computed, query, intent,
                   hf_requests, hf_reply, columns, keywords, found>>

\* build_dashboard(deals_df, work_df)  (app.py:157-176)
BuildDashboard ==
    /\ pc = "dashboard"
    /\ \E sector_data \in revenue_by_sector(deals_df) :
          LET pipeline == calculate_pipeline(deals_df)
              revenue  == SeriesSum(sector_data)
              orders   == work_order_metrics(work_df)
          IN  screen' = screen \o
                  << Widget("subheader", "Executive Dashboard", Null),
                     Widget("metric", "Total Pipeline", Rupees(pipeline[1])),
                     Widget("metric", "Weighted Forecast", Rupees(pipeline[2])),
                     Widget("metric", "Closed Revenue", Rupees(revenue)),
                     Widget("metric", "Work Orders", Count(orders[1])) >>
                  \o (IF Len(sector_data) # 0
                      THEN << Widget("subheader", "Revenue by Sector", Null),
                              Widget("bar_chart", "", Series(sector_data)) >>
                      ELSE <<>>)
    /\ computed' = computed \cup
                     {"calculate_pipeline", "revenue_by_sector", "work_order_metrics"}
    /\ pc' = "chat"
    /\ UNCHANGED <<HF_API_KEY, deals_df, work_df, query, intent, hf_requests,
                   hf_reply, columns, keywords, found>>

\* query = st.text_input(...); if query: ...  (app.py:272-274)
ChatInput(queries) ==
    /\ pc = "chat"
    /\ \E q \in queries :
          /\ query' = q
          /\ pc' = IF q # "" THEN "interpret_query" ELSE "done"
    /\ UNCHANGED <<HF_API_KEY, deals_df, work_df, screen, computed, intent,
                   hf_requests, hf_reply, columns, keywords, found>>

\* interpret_query without a credential  (app.py:184-185)
InterpretRuleBased ==
    /\ pc = "interpret_query"
    /\ ~UsesClassifier(HF_API_KEY)
    /\ intent' = rule_based_intent(query)
    /\ computed' = computed \cup {"interpret_query"}
    /\ pc' = "route"
    /\ UNCHANGED <<HF_API_KEY, deals_df, work_df, screen, query, hf_requests,
                   hf_reply, columns, keywords, found>>

\* interpret_query with a credential: requests.post(...)  (app.py:208-213)
InterpretPost ==
    /\ pc = "interpret_query"
    /\ UsesClassifier(HF_API_KEY)
    /\ hf_requests' = hf_requests + 1
    /\ computed' = computed \cup {"interpret_query"}
    /\ pc' = "hf_pending"
    /\ UNCHANGED <<HF_API_KEY, deals_df, work_df, screen, query, intent,
                   hf_reply, columns, keywords, found>>

\* the request returns or raises, and interpret_query returns  (app.py:215-229)
InterpretReply(replies) ==
    /\ pc = "hf_pending"
    /\ \E reply \in replies :
          /\ hf_reply' = reply
          /\ intent' = interpret_reply(query, reply)
    /\ pc' = "route"
    /\ UNCHANGED <<HF_API_KEY, deals_df, work_df, screen, computed, query,
                   hf_requests, columns, keywords, found>>

\* if intent == "pipeline": ... else: ...  (app.py:277-309)
Route ==
    /\ pc = "route"
    /\ \E sector_data \in revenue_by_sector(deals_df) :
          LET pipeline == calculate_pipeline(deals_df)
              revenue  == SeriesSum(sector_data)
              orders   == work_order_metrics(work_df)
          IN  CASE intent = "pipeline" ->
                     /\ screen' = screen \o
                          << Widget("metric", "Total Pipeline", Rupees(pipeline[1])),
                             Widget("metric", "Weighted Forecast", Rupees(pipeline[2])) >>
                     /\ computed' = computed \cup {"calculate_pipeline"}
                [] intent = "revenue" ->
                     /\ screen' = Append(screen,
                                         Widget("metric", "Closed Revenue", Rupees(revenue)))
                     /\ computed' = computed \cup {"revenue_by_sector"}
                [] intent = "operations" ->
                     /\ screen' = screen \o
                          << Widget("write", "Total Orders", Count(orders[1])),
                             Widget("write", "Completed", Count(orders[2])),
                             Widget("write", "In Progress", Count(orders[3])),
                             Widget("write", "Delayed", Count(orders[4])) >>
                     /\ computed' = computed \cup {"work_order_metrics"}
                [] intent = "leadership" ->
                     /\ screen' = screen \o
                          << Widget("markdown", "Leadership Summary", Null),
                             Widget("write", "Pipeline", Rupees(pipeline[1])),
                             Widget("write", "Forecast", Rupees(pipeline[2])),
                             Widget("write", "Revenue", Rupees(revenue)),
                             Widget("write", "Work Orders", Count(orders[1])),
                             Widget("write", "Delayed", Count(orders[4])) >>
                     /\ computed' = computed \cup {"calculate_pipeline",
                                       "revenue_by_sector", "work_order_metrics"}
                [] intent = "sector" ->
                     /\ screen' = Append(screen, Widget("bar_chart", "", Series(sector_data)))
                     /\ computed' = computed \cup {"revenue_by_sector"}
                [] OTHER ->
                     /\ screen' = Append(screen,
                              Widget("write", "Could you clarify your request?", Null))
                     /\ UNCHANGED computed
    /\ pc' = "done"
    /\ UNCHANGED <<HF_API_KEY, deals_df, work_df, query, intent, hf_requests,
                   hf_reply, columns, keywords, found>>

-----------------------------------------------------------------------------
(* Study of find_column on its own: every column list of up to MaxCols     *)
(* distinct titles, every keyword list the program passes and a few more.  *)

ColumnTitles ==
    {"Item Name", "Status", "Deal Status", "Deal Value", "Amount", "SECTOR"}

KeywordLists ==
    { <<"deal status", "status">>,      \* app.py:91, 115
      <<"value", "amount">>,            \* app.py:92, 116
      <<"probability">>,                \* app.py:93
      <<"sector">>,                     \* app.py:117
      <<"status">>,                     \* app.py:139
      <<"Amount", "Deal">>,
      <<>> }

InitIdle ==
    /\ HF_API_KEY = ""
    /\ deals_df = Unset
    /\ work_df = Unset
    /\ screen = <<>>
    /\ computed = {}
    /\ query = ""
    /\ intent = None
    /\ hf_requests = 0
    /\ hf_reply = Unset

InitResolver ==
    /\ InitIdle
    /\ pc = "find_column"
    /\ columns \in DistinctSeqs(ColumnTitles, MaxCols)
    /\ keywords \in KeywordLists
    /\ found = None

FindColumn ==
    /\ pc = "find_column"
    /\ found' = find_column(columns, keywords)
    /\ pc' = "returned"
    /\ UNCHANGED <<HF_API_KEY, deals_df, work_df, screen, computed, query,
                   intent, hf_requests, hf_reply, columns, keywords>>

NextResolver == FindColumn

SpecResolver == InitResolver /\ [][NextResolver]_vars

Matches(kw, col) == In(lower(kw), lower(col))

\* The column the resolver is to give: none when no column contains any
\* keyword, else the first column containing the earliest keyword that
\* some column contains.
Resolve(cols, kws) ==
    LET hits == {k \in 1..Len(kws) : \E i \in 1..Len(cols) : Matches(kws[k], cols[i])}
    IN  IF hits = {} THEN None
        ELSE LET k == CHOOSE h \in hits : \A g \in hits : h <= g
                 i == CHOOSE a \in 1..Len(cols) :
                          /\ Matches(kws[k], cols[a])
                          /\ \A b \in 1..(a - 1) : ~Matches(kws[k], cols[b])
             IN  cols[i]

\* C8: find_column returns None when no column name contains any keyword
\* (case-insensitively); otherwise it returns the first column, in column
\* order, containing the earliest keyword that any column contains.
C8_FindColumnPriority ==
    pc = "returned" => found = Resolve(columns, keywords)

\* A return where keyword priority beat column order: an earlier column
\* contains a later keyword, and the column returned comes after it.
C8_Witness ==
    /\ pc = "returned"
    /\ found # None
    /\ \E i, j \in 1..Len(columns) :
          /\ i < j
          /\ columns[j] = found
          /\ \E k \in 1..Len(keywords) : Matches(keywords[k], columns[i])

-----------------------------------------------------------------------------
(* Replies of the monday.com API. *)

MondayReply(status, json) == [status_code |-> status, json |-> json]

BoardJson(items) == [data |-> [boards |-> << [items_page |-> [items |-> items]] >>]]

Item(name, titles, texts) ==
    [name |-> name,
     column_values |-> [i \in 1..Len(titles) |->
                          [text |-> texts[i], column |-> [title |-> titles[i]]]]]

\* The replies for which fetch_board raises: the request itself fails, the
\* status is not 200, the body is no JSON, or it lacks data.boards[0].
FailedBoardReplies ==
    { [exc |-> TRUE],
      MondayReply(500, BoardJson(<<>>)),
      MondayReply(200, [invalid |-> TRUE]),
      MondayReply(200, [errors |-> "Not Authenticated"]),
      MondayReply(200, [data |-> [boards |-> <<>>]]) }

\* The texts a column of the generated boards takes, by its title: a
\* status that is, is not, or only resembles "Closed Won"; values that
\* parse, do not parse ("n/a") or are absent; sectors differing in case
\* and trailing space, or absent.
TextsFor(title) ==
    CASE title = "Deal Status" -> {Str("Closed Won"), Str("closed won")}
      [] title = "Status"      -> {Str("Closed Won"), Str("Open"), Null}
      [] title = "Deal Value"  -> {Str("500"), Str("300"), Str("n/a")}
      [] title = "Amount"      -> {Str("500"), Str("300"), Null}
      [] title = "Probability" -> {Str("2"), Null}
      [] title = "Sector"      -> {Str("Tech"), Str("tech "), Null}

ItemsOf(titles) ==
    {Item("Deal", titles, texts) :
        texts \in {t \in [1..Len(titles) -> UNION {TextsFor(titles[i]) : i \in 1..Len(titles)}] :
                      \A i \in 1..Len(titles) : t[i] \in TextsFor(titles[i])}}

BoardsOf(titles, n) == UNION {[1..k -> ItemsOf(titles)] : k \in 0..n}

\* Boards with every column, without a sector or probability column, and
\* without a status or a value column.
DealLayouts ==
    { <<"Deal Status", "Deal Value", "Sector">>,
      <<"Deal Status", "Amount", "Probability">>,
      <<"Status", "Deal Value">>,
      <<"Deal Status", "Sector">>,
      <<"Amount">> }

StudyDealReplies ==
    {MondayReply(200, BoardJson(items)) :
        items \in UNION {BoardsOf(titles, MaxRows) : titles \in DealLayouts}}

SampleDealReplies ==
    { MondayReply(200, BoardJson(<<>>)),
      MondayReply(200, BoardJson(
          << Item("Deal A", <<"Deal Status", "Deal Value", "Sector">>,
                  <<Str("Closed Won"), Str("500"), Str("Tech")>>),
             Item("Deal B", <<"Deal Status", "Deal Value", "Sector">>,
                  <<Str("Open"), Str("300"), Str("Energy")>>) >>)),
      MondayReply(200, BoardJson(
          << Item("Deal C", <<"Status", "Amount", "Probability">>,
                  <<Str("Negotiation"), Str("300"), Str("2")>>) >>)) }

SampleWorkReplies ==
    { MondayReply(200, BoardJson(<<>>)),
      MondayReply(200, BoardJson(
          << Item("WO 1", <<"Status">>, <<Str("Completed")>>),
             Item("WO 2", <<"Status">>, <<Str("Delayed")>>),
             Item("WO 3", <<"Status">>, <<Str("Unknown")>>) >>)),
      MondayReply(200, BoardJson(
          << Item("WO 4", <<"Owner">>, <<Str("In Progress")>>) >>)) }

-----------------------------------------------------------------------------
(* Replies of the external classifier. *)

HFReply(status, json) == [status_code |-> status, json |-> json]

Dict(f) == [dict |-> f]

List(l) == [list |-> l]

Generated(text) == List(<< Dict("generated_text" :> Str(text)) >>)

HFReplies(q) ==
    { [exc |-> TRUE],
      HFReply(503, Dict("error" :> Str("Model is loading"))),
      HFReply(200, [invalid |-> TRUE]),
      HFReply(200, Dict("error" :> Str("Model is loading"))),
      HFReply(200, Str("pipeline")),
      HFReply(200, List(<<>>)),
      HFReply(200, List(<< Dict("error" :> Str("revenue")) >>)),
      HFReply(200, List(<< Num(1) >>)),
      HFReply(200, List(<< Null >>)),
      HFReply(200, List(<< Str("generated_text") >>)),
      HFReply(200, List(<< Str("sector") >>)),
      HFReply(200, List(<< List(<< Str("generated_text") >>) >>)),
      HFReply(200, List(<< Dict("generated_text" :> Null) >>)),
      HFReply(200, Generated("Revenue")),
      HFReply(200, Generated("general")),
      HFReply(200, Generated("I cannot tell.")),
      HFReply(200, Generated("Sector, or perhaps PIPELINE")),
      HFReply(200, Generated("operations")),
      HFReply(200, Generated("leadership")),
      HFReply(200, Generated(Prompt(q) \o "revenue")) }

Queries ==
    { "",
      "What's our forecast?",
      "random nonsense",
      "Show revenue by sector",
      "Work Order status",
      "Leadership summary please",
      "Which SECTOR leads?" }

-----------------------------------------------------------------------------
(* The render cycle: one run of the script. *)

Init ==
    /\ pc = "fetch_deals"
    /\ HF_API_KEY \in {"", "hf_token"}
    /\ deals_df = Unset
    /\ work_df = Unset
    /\ screen = <<>>
    /\ computed = {}
    /\ query = ""
    /\ intent = None
    /\ hf_requests = 0
    /\ hf_reply = Unset
    /\ columns = <<>>
    /\ keywords = <<>>
    /\ found = None

Next ==
    \/ FetchDeals(FailedBoardReplies \cup SampleDealReplies)
    \/ FetchWork(FailedBoardReplies \cup SampleWorkReplies)
    \/ Tabs
    \/ BuildDashboard
    \/ ChatInput(Queries)
    \/ InterpretRuleBased
    \/ InterpretPost
    \/ InterpretReply(HFReplies(query))
    \/ Route

Spec == Init /\ [][Next]_vars

-----------------------------------------------------------------------------
(* Study of the metrics: the dashboard over every generated deals board. *)

InitMetrics ==
    /\ InitIdle
    /\ pc = "fetch_deals"
    /\ columns = <<>>
    /\ keywords = <<>>
    /\ found = None

NextMetrics ==
    \/ FetchDeals(StudyDealReplies)
    \/ FetchWork({MondayReply(200, BoardJson(<<>>))})
    \/ Tabs
    \/ BuildDashboard

SpecMetrics == InitMetrics /\ [][NextMetrics]_vars

-----------------------------------------------------------------------------
(* The statements about the metrics, over the dashboard just built. *)

DashboardBuilt == pc = "chat"

\* The amount shown in the dashboard tile with this label.
Shown(label) ==
    (CHOOSE w \in Range(screen) : w.widget = "metric" /\ w.label = label).value.rupees

ChartShown == \E w \in Range(screen) : w.widget = "bar_chart"

Chart == (CHOOSE w \in Range(screen) : w.widget = "bar_chart").value.series

StatusCol == Resolve(deals_df.columns, <<"deal status", "status">>)

ValueCol == Resolve(deals_df.columns, <<"value", "amount">>)

ProbCol == Resolve(deals_df.columns, <<"probability">>)

SectorCol == Resolve(deals_df.columns, <<"sector">>)

RECURSIVE SumOver(_, _)
SumOver(S, f) ==
    IF S = {} THEN 0
    ELSE LET x == CHOOSE y \in S : TRUE IN f[x] + SumOver(S \ {x}, f)

Records == 1..Len(deals_df.rows)

\* The number in a cell; an absent or unparsable value counts as zero.
Amount(cell) == IF IsNum(cell) THEN cell.num ELSE 0

OpenRecords == {i \in Records : deals_df.rows[i][StatusCol] # Str("Closed Won")}

ClosedRecords == {i \in Records : deals_df.rows[i][StatusCol] = Str("Closed Won")}

\* C7: calculate_pipeline gives (0, 0) when the status or the value column
\* does not resolve; otherwise the total is the sum of the value column over
\* the records whose status is not exactly "Closed Won", and the weighted
\* value is the sum of value x probability over the same records when a
\* probability column resolves, and the total when none does.
C7_PipelineTotals ==
    DashboardBuilt =>
        IF StatusCol = None \/ ValueCol = None
        THEN Shown("Total Pipeline") = 0 /\ Shown("Weighted Forecast") = 0
        ELSE LET total == SumOver(OpenRecords,
                             [i \in Records |-> Amount(deals_df.rows[i][ValueCol])])
             IN  /\ Shown("Total Pipeline") = total
                 /\ Shown("Weighted Forecast") =
                       IF ProbCol = None THEN total
                       ELSE SumOver(OpenRecords,
                                [i \in Records |->
                                    Amount(deals_df.rows[i][ValueCol])
                                      * Amount(deals_df.rows[i][ProbCol])])

\* A board with a probability column, a closed deal left out of the total
\* and an open deal whose weight changes it.
C7_Witness ==
    /\ DashboardBuilt
    /\ StatusCol # None /\ ValueCol # None /\ ProbCol # None
    /\ \E i \in ClosedRecords : Amount(deals_df.rows[i][ValueCol]) > 0
    /\ Shown("Total Pipeline") > 0
    /\ Shown("Weighted Forecast") > Shown("Total Pipeline")

\* C2: the closed revenue shown equals the row-wise sum of the value column
\* over the records whose status is exactly "Closed Won", also when no
\* sector column resolves or a record's sector is absent.
C2_ClosedRevenueIsRowwiseSum ==
    (DashboardBuilt /\ StatusCol # None /\ ValueCol # None) =>
        Shown("Closed Revenue") =
            SumOver(ClosedRecords, [i \in Records |-> Amount(deals_df.rows[i][ValueCol])])

\* str.strip() of the blanks at both ends.
RECURSIVE Strip(_)
Strip(s) ==
    IF Len(s) = 0 THEN s
    ELSE IF SubSeq(s, 1, 1) = " " THEN Strip(SubSeq(s, 2, Len(s)))
    ELSE IF SubSeq(s, Len(s), Len(s)) = " " THEN Strip(SubSeq(s, 1, Len(s) - 1))
    ELSE s

Normalised(cell) == IF IsStr(cell) THEN Str(lower(Strip(cell.str))) ELSE cell

\* C3: Closed Won records whose sectors differ only in letter case or
\* surrounding blanks are summed into one group keyed by the trimmed,
\* lower-cased sector: every key of the revenue-by-sector chart is
\* normalised, and no two keys have the same normalised form.
C3_SectorsMergedByNormalisedKey ==
    (DashboardBuilt /\ ChartShown) =>
        /\ \A i \in 1..Len(Chart) : Chart[i].index = Normalised(Chart[i].index)
        /\ \A i, j \in 1..Len(Chart) :
              Normalised(Chart[i].index) = Normalised(Chart[j].index) => i = j

\* The first record of the board with this sector.
FirstOccurrence(key) ==
    CHOOSE i \in Records :
        /\ deals_df.rows[i][SectorCol] = key
        /\ \A j \in 1..(i - 1) : deals_df.rows[j][SectorCol] # key

-----------------------------------------------------------------------------
(* The statements about the render cycle and the intent classifier. *)

Intents == {"pipeline", "revenue", "operations", "leadership", "sector", "general"}

\* interpret_query has returned for the query entered.
Classified == pc \in {"route", "done"} /\ query # ""

\* The classifier was asked and answered.
Replied == Classified /\ hf_reply # Unset

\* C6: when the fetch of either board fails, the cycle shows one error and
\* stops: nothing else is displayed, no metric is computed, no tab is built
\* and no intent is classified; and the cycle goes on only with both boards.
C6_FetchFailureHalts ==
    /\ (FetchError \in Range(screen) \/ pc = "stopped") =>
          /\ pc = "stopped"
          /\ screen = <<FetchError>>
          /\ computed = {}
          /\ intent = None
          /\ hf_requests = 0
    /\ pc \notin {"fetch_deals", "fetch_work", "stopped"} =>
          deals_df # Unset /\ work_df # Unset

\* The cycle stopped on the work-orders board, after the deals board had
\* been fetched.
C6_Witness ==
    pc = "stopped" /\ deals_df # Unset /\ work_df = Unset

\* C5: interpret_query always returns one of the six intents, whatever the
\* query, the credential and the outcome of the external call.
C5_IntentIsTotal ==
    Classified => intent \in Intents

\* The classifier answered with a first element that is no container (a
\* TypeError inside the try block) and an intent was still returned.
C5_Witness ==
    /\ Replied
    /\ "exc" \notin DOMAIN hf_reply
    /\ hf_reply.status_code = 200
    /\ IsList(hf_reply.json)
    /\ Len(hf_reply.json.list) > 0
    /\ IsNum(hf_reply.json.list[1])
    /\ intent \in Intents

\* C9: at most one request goes to the external classifier per query; with
\* no credential none goes, and the intent is rule_based_intent's.
C9_AtMostOneRequest ==
    /\ hf_requests <= 1
    /\ HF_API_KEY = "" =>
          /\ hf_requests = 0
          /\ Classified => intent = rule_based_intent(query)

\* The one request failed with a status other than 200 and the cycle ended
\* without a second request.
C9_Witness ==
    /\ pc = "done"
    /\ Replied
    /\ "exc" \notin DOMAIN hf_reply
    /\ hf_reply.status_code # 200
    /\ hf_requests = 1

\* The reply is a 200 whose first element holds a generated_text string.
HasText(reply) ==
    /\ "exc" \notin DOMAIN reply
    /\ reply.status_code = 200
    /\ IsList(reply.json)
    /\ Len(reply.json.list) > 0
    /\ IsDict(reply.json.list[1])
    /\ "generated_text" \in DOMAIN reply.json.list[1].dict
    /\ IsStr(reply.json.list[1].dict["generated_text"])

TextOf(reply) == reply.json.list[1].dict["generated_text"].str

\* C10: on a successful reply whose lower-cased generated_text contains
\* "pipeline" the intent is pipeline, whatever other topic words the text
\* holds and wherever they stand.
C10_PipelineWinsOnSuccess ==
    (Replied /\ HasText(hf_reply) /\ In("pipeline", lower(TextOf(hf_reply)))) =>
        intent = "pipeline"

\* The reply echoes the prompt before its answer, for a query that the rule
\* engine does not classify as pipeline.
C10_Witness ==
    /\ Replied
    /\ HasText(hf_reply)
    /\ In(Prompt(query), TextOf(hf_reply))
    /\ rule_based_intent(query) # "pipeline"
    /\ intent = "pipeline"

\* A failure of the delegated call: an exception, a status other than 200,
\* a payload that is no JSON, no list, an empty list or a list whose first
\* element holds no generated_text string, or a text with no topic word.
IsClassifierFailure(reply) ==
    \/ ~HasText(reply)
    \/ /\ HasText(reply)
       /\ \A topic \in Intents : ~In(topic, lower(TextOf(reply)))

\* C1: with a credential configured, every failure of the delegated call
\* makes interpret_query return what rule_based_intent returns for the query.
C1_FailureFallsBackToRules ==
    (Replied /\ IsClassifierFailure(hf_reply)) => intent = rule_based_intent(query)

=============================================================================
